---- MODULE Spec2Model ----
(***************************************************************************)
(* Model of homework.py: a polling client that asks the homework-status    *)
(* endpoint for updates and relays status changes and failures through a   *)
(* Telegram bot.                                                           *)
(*                                                                         *)
(* Python values are tagged records [t |-> type, v |-> value]; a dict is a *)
(* function from its keys.  The Cyrillic literals of the source are        *)
(* written in Latin transliteration (the parser accepts ASCII only); the   *)
(* texts stay pairwise distinct, as in the source.                         *)
(***************************************************************************)
EXTENDS Integers, Sequences, FiniteSets, TLC

VARIABLES
    env,               \* PRACTICUM_TOKEN, TELEGRAM_TOKEN, TELEGRAM_CHAT_ID: set or not
    pc,                \* position of main()
    timestamp,         \* main's timestamp, the dict {'from_date': cursor}
    previous_message,  \* main's previous_message
    params,            \* the params of the last requests.get
    response,          \* main's response (the parsed body of this iteration)
    message,           \* main's message (the status text of this iteration)
    error,             \* the exception caught by "except Exception as error"
    sends,             \* the bot.send_message calls of this iteration
    pending,           \* an exception is propagating out of the except block
    http_answer,       \* what the requests.get of this iteration met
    last_call          \* the latest call of requests.get or time.sleep

vars == <<env, pc, timestamp, previous_message, params, response, message,
          error, sends, pending, http_answer, last_call>>

(***************************************************************************)
(* Bounds of the model.                                                    *)
(***************************************************************************)
MaxHomeworks == 2      \* longest homeworks list a response carries
NumDates == 2          \* number of distinct current_date values served

(***************************************************************************)
(* Program constants.                                                      *)
(***************************************************************************)
StartTime == 500       \* int(time.time()) when main() starts
RETRY_PERIOD == 600

ENDPOINT == "https://practicum.yandex.ru/api/user_api/homework_statuses/"

HOMEWORK_VERDICTS ==
    [approved  |-> "Rabota proverena: revyueru vsyo ponravilos. Ura!",
     reviewing |-> "Rabota vzyata na proverku revyuerom.",
     rejected  |-> "Rabota proverena: u revyuera est zamechaniya."]

(***************************************************************************)
(* Python values and exceptions.                                           *)
(***************************************************************************)
PyNone == [t |-> "NoneType", v |-> "None"]
PyInt(n) == [t |-> "int", v |-> n]
PyStr(s) == [t |-> "str", v |-> s]
PyList(s) == [t |-> "list", v |-> s]
PyDict(f) == [t |-> "dict", v |-> f]

Unset == [t |-> "unset", v |-> "unset"]

NoError == [type |-> "none", arg |-> ""]
Raise(type, arg) == [type |-> type, arg |-> arg]

\* str(error): KeyError shows the repr of its single argument, the other
\* exception types show the argument itself.
Str(exc) ==
    IF exc.type = "KeyError" THEN "'" \o exc.arg \o "'" ELSE exc.arg

Ok(value) == [ok |-> TRUE, value |-> value, error |-> NoError]
Fail(exc) == [ok |-> FALSE, value |-> Unset, error |-> exc]

(***************************************************************************)
(* check_tokens                                                            *)
(***************************************************************************)
check_tokens(e) ==
    e.PRACTICUM_TOKEN /\ e.TELEGRAM_TOKEN /\ e.TELEGRAM_CHAT_ID

(***************************************************************************)
(* send_message: api is what bot.send_message does ("ok", it raises        *)
(* "BadRequest", or it raises another telegram error, "NetworkError").     *)
(***************************************************************************)
BotOutcomes == {"ok", "BadRequest", "NetworkError"}

\* chat_id=TELEGRAM_CHAT_ID: without a chat identifier the bot API has no
\* chat to deliver to and rejects the request, or is not reached at all.
BotAnswers(e) ==
    IF e.TELEGRAM_CHAT_ID THEN BotOutcomes ELSE BotOutcomes \ {"ok"}

\* send_message with "return False" in the BadRequest handler
send_message_ReportsRejection(api) ==
    IF api = "ok" THEN Ok(TRUE)
    ELSE IF api = "BadRequest" THEN Ok(FALSE)
    ELSE Fail(Raise(api, "Connection to the bot API failed"))

\* send_message with "except Exception" in place of "except BadRequest"
send_message_CatchesAll(api) == Ok(TRUE)

send_message(api) ==
    IF api = "ok" THEN Ok(TRUE)
    ELSE IF api = "BadRequest" THEN Ok(TRUE)
    ELSE Fail(Raise(api, "Connection to the bot API failed"))

(***************************************************************************)
(* get_api_answer: http is what requests.get and response.json() do.       *)
(***************************************************************************)
\* get_api_answer without the test of response.status_code
get_api_answer_NoStatusTest(http) ==
    IF http.transport # "ok"
    THEN Fail(Raise("ConnectionError",
                    "Error " \o http.transport \o " occurred when "
                    \o "requesting the API endpoint: " \o ENDPOINT))
    ELSE IF http.json.t = "invalid"
    THEN Fail(Raise("JSONDecodeError", "Expecting value: line 1 column 1 (char 0)"))
    ELSE Ok(http.json)

get_api_answer(http) ==
    IF http.transport # "ok"
    THEN Fail(Raise("ConnectionError",
                    "Error " \o http.transport \o " occurred when "
                    \o "requesting the API endpoint: " \o ENDPOINT))
    ELSE IF http.status_code # 200
    THEN Fail(Raise("ConnectionError",
                    "Endpoint " \o ENDPOINT \o " unavailable. "
                    \o "Status code: " \o ToString(http.status_code)))
    ELSE IF http.json.t = "invalid"
    THEN Fail(Raise("JSONDecodeError", "Expecting value: line 1 column 1 (char 0)"))
    ELSE Ok(http.json)

(***************************************************************************)
(* check_response                                                          *)
(***************************************************************************)
\* check_response with both "in" tests ahead of both type tests
check_response_KeysFirst(r) ==
    IF r.t # "dict"
    THEN Fail(Raise("TypeError", "The data must be of the dict type"))
    ELSE IF "homeworks" \notin DOMAIN r.v
    THEN Fail(Raise("KeyError", "The \"homework\" key not found"))
    ELSE IF "current_date" \notin DOMAIN r.v
    THEN Fail(Raise("KeyError", "The \"current_date\" key not found"))
    ELSE IF r.v.homeworks.t # "list"
    THEN Fail(Raise("TypeError", "The data must be of the list type"))
    ELSE IF r.v.current_date.t = "NoneType"
    THEN Fail(Raise("ValueError", "The \"current_date\" value not found"))
    ELSE IF r.v.current_date.t # "int"
    THEN Fail(Raise("TypeError", "The data must be of the int type"))
    ELSE Ok(r.v.homeworks.v)

\* check_response without the "is None" test of current_date
check_response_NoNullTest(r) ==
    IF r.t # "dict"
    THEN Fail(Raise("TypeError", "The data must be of the dict type"))
    ELSE IF "homeworks" \notin DOMAIN r.v
    THEN Fail(Raise("KeyError", "The \"homework\" key not found"))
    ELSE IF r.v.homeworks.t # "list"
    THEN Fail(Raise("TypeError", "The data must be of the list type"))
    ELSE IF "current_date" \notin DOMAIN r.v
    THEN Fail(Raise("KeyError", "The \"current_date\" key not found"))
    ELSE IF r.v.current_date.t # "int"
    THEN Fail(Raise("TypeError", "The data must be of the int type"))
    ELSE Ok(r.v.homeworks.v)

check_response(r) ==
    IF r.t # "dict"
    THEN Fail(Raise("TypeError", "The data must be of the dict type"))
    ELSE IF "homeworks" \notin DOMAIN r.v
    THEN Fail(Raise("KeyError", "The \"homework\" key not found"))
    ELSE IF r.v.homeworks.t # "list"
    THEN Fail(Raise("TypeError", "The data must be of the list type"))
    ELSE IF "current_date" \notin DOMAIN r.v
    THEN Fail(Raise("KeyError", "The \"current_date\" key not found"))
    ELSE IF r.v.current_date.t = "NoneType"
    THEN Fail(Raise("ValueError", "The \"current_date\" value not found"))
    ELSE IF r.v.current_date.t # "int"
    THEN Fail(Raise("TypeError", "The data must be of the int type"))
    ELSE Ok(r.v.homeworks.v)

(***************************************************************************)
(* parse_status                                                            *)
(***************************************************************************)
\* parse_status with verdict = HOMEWORK_VERDICTS.get(status) and no test of
\* the status: an unknown status yields a text with the verdict None
parse_status_AnyStatus(homework) ==
    IF "homework_name" \notin DOMAIN homework
    THEN Fail(Raise("KeyError", "The \"homework_name\" is missing"))
    ELSE IF "status" \notin DOMAIN homework
    THEN Fail(Raise("KeyError", "The \"status\" is missing"))
    ELSE Ok("Izmenilsya status proverki raboty "
            \o "\"" \o homework.homework_name \o "\". "
            \o (IF homework.status \in DOMAIN HOMEWORK_VERDICTS
                THEN HOMEWORK_VERDICTS[homework.status] ELSE "None"))

parse_status(homework) ==
    IF "homework_name" \notin DOMAIN homework
    THEN Fail(Raise("KeyError", "The \"homework_name\" is missing"))
    ELSE IF "status" \notin DOMAIN homework
    THEN Fail(Raise("KeyError", "The \"status\" is missing"))
    ELSE IF homework.status \notin DOMAIN HOMEWORK_VERDICTS
    THEN Fail(Raise("ValueError", "Status unknown or missing"))
    ELSE Ok("Izmenilsya status proverki raboty "
            \o "\"" \o homework.homework_name \o "\". "
            \o HOMEWORK_VERDICTS[homework.status])

(***************************************************************************)
(* The comparisons "message is not previous_message" and "err_msg is not   *)
(* previous_message" compare object identity.  Both left operands are      *)
(* strings built anew by an f-string: an object of a different value is    *)
(* never the same object, and whether a newly built string of equal value  *)
(* is the same object as the stored one is up to the interpreter (CPython  *)
(* builds a distinct object).  shared is that choice.                      *)
(***************************************************************************)
Is(a, b, shared) == a = b /\ shared

\* "if homeworks is not None:" in place of "if homeworks:"
Truthy_NotNone(list) == TRUE

\* "if homeworks:" - the truth value of a list
Truthy(list) == Len(list) > 0

\* homeworks[-1], the latest element, in place of homeworks[0]
First_Last(list) ==
    IF Len(list) = 0 THEN Fail(Raise("IndexError", "list index out of range"))
    ELSE Ok(list[Len(list)])

\* homeworks[0]
First(list) ==
    IF Len(list) = 0 THEN Fail(Raise("IndexError", "list index out of range"))
    ELSE Ok(list[1])

\* {'from_date': int(time.time())} read once at startup, in place of the
\* server-reported current_date
NewTimestamp_Clock(r) == [from_date |-> StartTime]

\* {'from_date': response.get('current_date')}
NewTimestamp(r) == [from_date |-> r.v.current_date.v]

\* f'Sboi v rabote programmy: {error}'
ErrMsg(exc) == "Sboi v rabote programmy: " \o Str(exc)

(***************************************************************************)
(* What the two services can answer.                                       *)
(***************************************************************************)
Dates == {1000 * i : i \in 1..NumDates}

HeadRecords ==
    {[homework_name |-> "hw1", status |-> s] :
        s \in {"approved", "reviewing", "rejected", "unknown_code"}}
    \cup {[status |-> "approved"], [homework_name |-> "hw1"], [id |-> "1"],
          [status |-> "unknown_code"]}

TailRecords == {[homework_name |-> "hw2", status |-> "rejected"], [homework_name |-> "hw2"]}

RECURSIVE TailsUpTo(_)
TailsUpTo(n) ==
    IF n <= 0 THEN {<<>>}
    ELSE {<<>>} \cup {<<r>> \o t : r \in TailRecords, t \in TailsUpTo(n - 1)}

HomeworkLists ==
    {<<>>} \cup {<<h>> \o t : h \in HeadRecords, t \in TailsUpTo(MaxHomeworks - 1)}

WellFormedBodies ==
    {PyDict([homeworks |-> PyList(l), current_date |-> PyInt(d)]) :
        l \in HomeworkLists, d \in Dates}

MalformedBodies ==
    {PyList(<<>>),
     PyStr("Service unavailable"),
     PyDict([detail |-> PyStr("no data")]),
     PyDict([current_date |-> PyStr("1000")]),
     PyDict([homeworks |-> PyStr("hw1")]),
     PyDict([homeworks |-> PyNone, current_date |-> PyInt(1000)]),
     PyDict([homeworks |-> PyStr("hw1"), current_date |-> PyStr("1000")]),
     PyDict([homeworks |-> PyStr("hw1"), current_date |-> PyNone]),
     PyDict([homeworks |-> PyList(<<[homework_name |-> "hw1", status |-> "approved"]>>)]),
     PyDict([homeworks |-> PyList(<<[homework_name |-> "hw1", status |-> "approved"]>>),
             current_date |-> PyNone]),
     PyDict([current_date |-> PyInt(1000)]),
     PyDict([homeworks |-> PyStr("hw1"), current_date |-> PyInt(1000)]),
     PyDict([homeworks |-> PyList(<<>>)]),
     PyDict([homeworks |-> PyList(<<>>), current_date |-> PyNone]),
     PyDict([homeworks |-> PyList(<<>>), current_date |-> PyStr("1000")])}

InvalidJson == [t |-> "invalid", v |-> "not json"]

NoHttp == [transport |-> "none", status_code |-> 0, json |-> InvalidJson]

NoCall == [fn |-> "none", secs |-> 0]

\* HEADERS carries 'OAuth {PRACTICUM_TOKEN}': without the token the request
\* is not authorized, and the endpoint answers 401 when it is reached.
Unauthorized ==
    {[transport |-> "timed out", status_code |-> 0, json |-> InvalidJson],
     [transport |-> "ok", status_code |-> 401, json |-> InvalidJson]}

Authorized ==
    {[transport |-> "timed out", status_code |-> 0, json |-> InvalidJson],
     [transport |-> "ok", status_code |-> 404, json |-> InvalidJson],
     [transport |-> "ok", status_code |-> 404,
      json |-> PyDict([homeworks |-> PyList(<<>>), current_date |-> PyInt(1000)])],
     [transport |-> "ok", status_code |-> 200, json |-> InvalidJson]}
    \cup {[transport |-> "ok", status_code |-> 200, json |-> b] :
            b \in WellFormedBodies \cup MalformedBodies}

HttpAnswers(e) == IF e.PRACTICUM_TOKEN THEN Authorized ELSE Unauthorized

(***************************************************************************)
(* main                                                                    *)
(***************************************************************************)
Init ==
    /\ env \in [PRACTICUM_TOKEN : BOOLEAN, TELEGRAM_TOKEN : BOOLEAN,
                TELEGRAM_CHAT_ID : BOOLEAN]
    /\ pc = "start"
    /\ timestamp = [from_date |-> StartTime]
    /\ previous_message = ""
    /\ params = [from_date |-> StartTime]
    /\ response = Unset
    /\ message = ""
    /\ error = NoError
    /\ sends = <<>>
    /\ pending = FALSE
    /\ http_answer = NoHttp
    /\ last_call = NoCall

\* Lines 120-126.  When check_tokens() is false the critical entry is logged
\* and SystemExit() is constructed but not raised, so execution goes on.
\* Bot(token=TELEGRAM_TOKEN) is the library's constructor: it raises on a
\* token it finds invalid, which an absent one (None) always is; that
\* exception is not caught and ends main().
Start ==
    /\ pc = "start"
    /\ \E ctor \in {"ok", "InvalidToken"} :
          /\ ctor = "ok" => env.TELEGRAM_TOKEN
          /\ pc' = IF ctor = "ok" THEN "poll" ELSE "halted"
    /\ timestamp' = [from_date |-> StartTime]
    /\ previous_message' = ""
    /\ UNCHANGED <<env, params, response, message, error, sends, pending,
                   http_answer, last_call>>

\* Line 130: response = get_api_answer(timestamp)
Poll ==
    /\ pc = "poll"
    /\ params' = timestamp
    /\ last_call' = [fn |-> "requests.get", secs |-> 0]
    /\ \E answer \in HttpAnswers(env) :
          LET got == get_api_answer(answer) IN
          /\ http_answer' = answer
          /\ IF got.ok
             THEN /\ response' = got.value
                  /\ error' = NoError
                  /\ pc' = "process"
             ELSE /\ response' = Unset
                  /\ error' = got.error
                  /\ pc' = "except"
    /\ UNCHANGED <<env, timestamp, previous_message, message, sends, pending>>

\* The else branch if it advanced the cursor as a fully processed poll
StatusNotUpdated_Advances ==
    /\ pc' = "sleep"
    /\ timestamp' = NewTimestamp(response)
    /\ UNCHANGED <<previous_message, message, error>>

\* Lines 138-139: the else branch of "if homeworks:"
StatusNotUpdated ==
    /\ pc' = "sleep"
    /\ UNCHANGED <<timestamp, previous_message, message, error>>

\* Process with the cursor assignment one level out, under
\* "if homeworks:" rather than under "if send_message(...)": a message
\* treated as the same as previous_message still advances the cursor
Process_SkipAdvances ==
    /\ pc = "process"
    /\ LET checked == check_response(response) IN
       IF ~checked.ok
       THEN /\ error' = checked.error
            /\ pc' = "except"
            /\ UNCHANGED <<timestamp, previous_message, message>>
       ELSE IF ~Truthy(checked.value)
       THEN StatusNotUpdated
       ELSE LET first == First(checked.value) IN
            IF ~first.ok
            THEN /\ error' = first.error
                 /\ pc' = "except"
                 /\ UNCHANGED <<timestamp, previous_message, message>>
            ELSE LET parsed == parse_status(first.value) IN
                 IF ~parsed.ok
                 THEN /\ error' = parsed.error
                      /\ pc' = "except"
                      /\ UNCHANGED <<timestamp, previous_message, message>>
                 ELSE /\ message' = parsed.value
                      /\ \E shared \in BOOLEAN :
                            IF Is(parsed.value, previous_message, shared)
                            THEN pc' = "sleep" /\ timestamp' = NewTimestamp(response)
                            ELSE pc' = "notify" /\ timestamp' = timestamp
                      /\ UNCHANGED <<previous_message, error>>
    /\ UNCHANGED <<env, params, response, sends, pending, http_answer,
                   last_call>>

\* Lines 131-134 and 138-139: validate, extract the status of homeworks[0],
\* compare it with previous_message.
Process ==
    /\ pc = "process"
    /\ LET checked == check_response(response) IN
       IF ~checked.ok
       THEN /\ error' = checked.error
            /\ pc' = "except"
            /\ UNCHANGED <<timestamp, previous_message, message>>
       ELSE IF ~Truthy(checked.value)
       THEN StatusNotUpdated
       ELSE LET first == First(checked.value) IN
            IF ~first.ok
            THEN /\ error' = first.error
                 /\ pc' = "except"
                 /\ UNCHANGED <<timestamp, previous_message, message>>
            ELSE LET parsed == parse_status(first.value) IN
                 IF ~parsed.ok
                 THEN /\ error' = parsed.error
                      /\ pc' = "except"
                      /\ UNCHANGED <<timestamp, previous_message, message>>
                 ELSE /\ message' = parsed.value
                      /\ \E shared \in BOOLEAN :
                            pc' = IF Is(parsed.value, previous_message, shared)
                                  THEN "sleep" ELSE "notify"
                      /\ UNCHANGED <<timestamp, previous_message, error>>
    /\ UNCHANGED <<env, params, response, sends, pending, http_answer,
                   last_call>>

\* Lines 135-137: if send_message(bot, message): previous_message = message;
\* timestamp = {'from_date': response.get('current_date')}
Notify ==
    /\ pc = "notify"
    /\ \E api \in BotAnswers(env) :
          LET sent == send_message(api) IN
          /\ sends' = Append(sends, [text |-> message, api |-> api])
          /\ IF ~sent.ok
             THEN /\ error' = sent.error
                  /\ pc' = "except"
                  /\ UNCHANGED <<timestamp, previous_message>>
             ELSE /\ IF sent.value
                     THEN /\ previous_message' = message
                          /\ timestamp' = NewTimestamp(response)
                     ELSE UNCHANGED <<timestamp, previous_message>>
                  /\ pc' = "sleep"
                  /\ UNCHANGED error
    /\ UNCHANGED <<env, params, response, message, pending, http_answer,
                   last_call>>

\* The except block of a loop whose sleep is the last statement of the try
\* body instead of a finally block: no sleep after an error
Except_SkipsSleep ==
    /\ pc = "except"
    /\ LET err_msg == ErrMsg(error) IN
       \E shared \in BOOLEAN :
          IF Is(err_msg, previous_message, shared)
          THEN /\ pc' = "poll"
               /\ UNCHANGED <<previous_message, sends, pending>>
          ELSE \E api \in BotAnswers(env) :
                  LET sent == send_message(api) IN
                  /\ sends' = Append(sends, [text |-> err_msg, api |-> api])
                  /\ pending' = ~sent.ok
                  /\ pc' = IF sent.ok THEN "poll" ELSE "crashed"
                  /\ previous_message' =
                        IF sent.ok /\ sent.value THEN err_msg
                        ELSE previous_message
    /\ UNCHANGED <<env, timestamp, params, response, message, error,
                   http_answer, last_call>>

\* Lines 141-146: the except block.  An exception raised by send_message
\* here is not caught: it leaves main() once the finally block has run.
Except ==
    /\ pc = "except"
    /\ LET err_msg == ErrMsg(error) IN
       \E shared \in BOOLEAN :
          IF Is(err_msg, previous_message, shared)
          THEN UNCHANGED <<previous_message, sends, pending>>
          ELSE \E api \in BotAnswers(env) :
                  LET sent == send_message(api) IN
                  /\ sends' = Append(sends, [text |-> err_msg, api |-> api])
                  /\ pending' = ~sent.ok
                  /\ previous_message' =
                        IF sent.ok /\ sent.value THEN err_msg
                        ELSE previous_message
    /\ pc' = "sleep"
    /\ UNCHANGED <<env, timestamp, params, response, message, error,
                   http_answer, last_call>>

\* Lines 148-149 and 128: time.sleep(RETRY_PERIOD), then the next iteration,
\* unless an exception is propagating.  The iteration's locals are dead at
\* this point (each is assigned before it is read again).
Sleep ==
    /\ pc = "sleep"
    /\ pc' = IF pending THEN "crashed" ELSE "poll"
    /\ response' = Unset
    /\ message' = ""
    /\ error' = NoError
    /\ sends' = <<>>
    /\ http_answer' = NoHttp
    /\ last_call' = [fn |-> "time.sleep", secs |-> RETRY_PERIOD]
    /\ UNCHANGED <<env, timestamp, previous_message, params, pending>>

Next == Start \/ Poll \/ Process \/ Notify \/ Except \/ Sleep

Spec == Init /\ [][Next]_vars

(***************************************************************************)
(* Properties.  An iteration is over in the states with pc = "sleep": the  *)
(* try, except and else blocks have run and only the sleep is left.        *)
(***************************************************************************)
Validated == response.t # "unset" /\ check_response(response).ok

Homeworks == check_response(response).value

\* the status message of this iteration went to the Notifier, which
\* reported success
StatusSendReported ==
    /\ message # ""
    /\ sends # <<>>
    /\ sends[1].text = message
    /\ send_message(sends[1].api).ok
    /\ send_message(sends[1].api).value

\* the process was started with all three values present; the statements of
\* C3-C6, C8 and C9 are made of such a process, so that what refutes them
\* does not rest on the startup check of C7
Configured == check_tokens(env)

ServerDate == [from_date |-> response.v.current_date.v]

StepsAtoC == {"ConnectionError", "JSONDecodeError", "TypeError", "KeyError",
              "ValueError", "IndexError"}

\* C1 as stated: at the end of every iteration the cursor is the response's
\* current_date if the response validated and either homeworks was empty or
\* the status was notified with success, and is the value the poll was
\* issued with otherwise.
C1_AdvanceIffValidEmptyOrNotified ==
    pc = "sleep" =>
        IF Validated /\ (Len(Homeworks) = 0 \/ StatusSendReported)
        THEN timestamp = ServerDate
        ELSE timestamp = params

\* C1 amended: at the end of every iteration the cursor is the response's
\* current_date if the response validated, homeworks was non-empty and its
\* status message was passed to send_message, which reported success; in every
\* other iteration (a validated empty homeworks list included) it is the
\* value the poll was issued with.
C1_AdvanceIffNotified ==
    pc = "sleep" =>
        IF Validated /\ Len(Homeworks) > 0 /\ StatusSendReported
        THEN timestamp = ServerDate
        ELSE timestamp = params

C1_Witness ==
    /\ pc = "sleep"
    /\ Validated /\ Len(Homeworks) > 0 /\ StatusSendReported
    /\ timestamp = ServerDate
    /\ timestamp # params

\* C2: an iteration whose response validates with an empty homeworks list
\* goes straight to the sleep: no send_message call, cursor and
\* previous_message as they were.
C2_EmptyHomeworksNoEffect ==
    [][(pc = "process" /\ Validated /\ Len(Homeworks) = 0) =>
          /\ pc' = "sleep"
          /\ sends' = <<>>
          /\ timestamp' = timestamp
          /\ previous_message' = previous_message]_vars

C2_Witness ==
    /\ pc = "sleep"
    /\ Validated /\ Len(Homeworks) = 0
    /\ sends = <<>>
    /\ timestamp = params
    /\ previous_message # ""

\* C3: a status message equal by value to previous_message (the message of
\* the poll before, nothing else sent since) is not sent again.
C3_StatusSentOnce ==
    [][(Configured /\ pc = "notify" /\ message = previous_message) =>
          sends' = sends]_vars

\* C4: a diagnostic equal to the one recorded on the poll before is not sent
\* again.
C4_DiagnosticSentOnce ==
    [][(Configured /\ pc = "except" /\ ErrMsg(error) = previous_message) =>
          sends' = sends]_vars

\* C5: when an iteration has changed the cursor, the bot API delivered the
\* status message of that iteration.
C5_AdvanceOnlyAfterDelivery ==
    (Configured /\ pc = "sleep" /\ timestamp # params) =>
        \E i \in 1..Len(sends) : sends[i].text = message /\ sends[i].api = "ok"

\* C6: whatever was raised in an iteration, the sleep is followed by the next
\* poll.
C6_SleepThenPoll ==
    [][(Configured /\ pc = "sleep") => pc' = "poll"]_vars

\* C7: with one of the three values absent the process never gets past
\* startup: it fetches nothing and sends nothing.
C7_MissingTokenHalts ==
    ~check_tokens(env) => (pc \in {"start", "halted"} /\ sends = <<>>)

\* C8: handling an error of fetch, validation or extraction leaves the cursor
\* alone, and sends the diagnostic (recording it when the send reports
\* success) exactly when its text differs from previous_message.
C8_ErrorKeepsCursorAndRelaysOnce ==
    [][(Configured /\ pc = "except" /\ error.type \in StepsAtoC) =>
          /\ timestamp' = timestamp
          /\ IF ErrMsg(error) # previous_message
             THEN /\ Len(sends') = Len(sends) + 1
                  /\ sends'[Len(sends')].text = ErrMsg(error)
                  /\ (~pending' => previous_message' = ErrMsg(error))
             ELSE /\ sends' = sends
                  /\ previous_message' = previous_message]_vars

\* C9: previous_message only ever takes the text of a send that the bot API
\* delivered.
C9_LastMessageWasDelivered ==
    [][(Configured /\ previous_message' # previous_message) =>
          /\ sends' # <<>>
          /\ sends'[Len(sends')].text = previous_message'
          /\ sends'[Len(sends')].api = "ok"]_vars

\* C10: after an iteration whose status message was passed to send_message
\* with reported success, previous_message is that message and the cursor is
\* the current_date of the iteration's response.
C10_NotifiedUpdatesBoth ==
    (pc = "sleep" /\ StatusSendReported) =>
        /\ previous_message = message
        /\ timestamp = [from_date |-> response.v.current_date.v]

\* the first scenario: hw1 approved with current_date 1000, polled with the
\* startup cursor (so previous_message held no status message before)
C10_Witness ==
    /\ pc = "sleep"
    /\ params = [from_date |-> StartTime]
    /\ Validated /\ Len(Homeworks) > 0
    /\ Homeworks[1] = [homework_name |-> "hw1", status |-> "approved"]
    /\ response.v.current_date.v = 1000
    /\ sends = <<[text |-> message, api |-> "ok"]>>
    /\ message = "Izmenilsya status proverki raboty \"hw1\". "
                 \o "Rabota proverena: revyueru vsyo ponravilos. Ura!"
    /\ previous_message = message
    /\ timestamp = [from_date |-> 1000]

(***************************************************************************)
(* check_response on the responses the loop hands it.  response holds the  *)
(* argument from the fetch to the end of the iteration; Checked is what     *)
(* check_response does with it.                                            *)
(***************************************************************************)
Fetched == response.t # "unset"

Checked == check_response(response)

IsMapping == response.t = "dict"

HasKey(k) == IsMapping /\ k \in DOMAIN response.v

\* the value under k has another type than type (None is no wrong-typed
\* value: the null current_date has a check of its own)
WrongType(k, type) ==
    HasKey(k) /\ response.v[k].t \notin {type, "NoneType"}

FailsWith(kind) == ~Checked.ok /\ Checked.error.type = kind

\* C11 as stated: every mapping without the homeworks key or without the
\* current_date key fails with KeyError, and every mapping whose homeworks
\* or current_date value has the wrong type fails with TypeError.
C11_MissingKeyOrWrongType ==
    (Fetched /\ IsMapping) =>
        /\ (~HasKey("homeworks") \/ ~HasKey("current_date")) => FailsWith("KeyError")
        /\ (WrongType("homeworks", "list") \/ WrongType("current_date", "int"))
              => FailsWith("TypeError")

\* C11 amended: a mapping without the homeworks key fails with KeyError; one
\* whose homeworks value is not a list fails with TypeError, whether or not
\* current_date is there; one with a homeworks list and no current_date key
\* fails with KeyError; one with a homeworks list and a current_date that is
\* neither null nor an integer fails with TypeError.
C11_FirstViolationDecides ==
    (Fetched /\ IsMapping) =>
        /\ ~HasKey("homeworks") => FailsWith("KeyError")
        /\ (HasKey("homeworks") /\ response.v.homeworks.t # "list")
              => FailsWith("TypeError")
        /\ (HasKey("homeworks") /\ response.v.homeworks.t = "list"
              /\ ~HasKey("current_date")) => FailsWith("KeyError")
        /\ (HasKey("homeworks") /\ response.v.homeworks.t = "list"
              /\ WrongType("current_date", "int")) => FailsWith("TypeError")

\* a mapping without current_date whose homeworks is no list went through
\* check_response and the loop caught a TypeError
C11_Witness ==
    /\ pc = "except"
    /\ IsMapping
    /\ ~HasKey("current_date")
    /\ WrongType("homeworks", "list")
    /\ error = Checked.error
    /\ error.type = "TypeError"

\* The six checks of check_response, each as the condition that violates it
\* (a later check is only violated by a response the earlier ones can read).
Violates(i) ==
    CASE i = 1 -> ~IsMapping
      [] i = 2 -> IsMapping /\ ~HasKey("homeworks")
      [] i = 3 -> HasKey("homeworks") /\ response.v.homeworks.t # "list"
      [] i = 4 -> IsMapping /\ ~HasKey("current_date")
      [] i = 5 -> HasKey("current_date") /\ response.v.current_date.t = "NoneType"
      [] i = 6 -> HasKey("current_date") /\ response.v.current_date.t # "int"

CheckKinds ==
    <<"TypeError", "KeyError", "TypeError", "KeyError", "ValueError", "TypeError">>

Violated == {i \in 1..6 : Violates(i)}

FirstViolated == CHOOSE i \in Violated : \A j \in Violated : i <= j

\* C12: check_response fails with the error kind of the first of the six
\* checks that its argument violates, and with none violated it returns the
\* homeworks sequence as it came (same records, same order, empty or not).
C12_FirstViolatedCheckOrHomeworks ==
    Fetched =>
        IF Violated # {}
        THEN FailsWith(CheckKinds[FirstViolated])
        ELSE Checked.ok /\ Checked.value = http_answer.json.v.homeworks.v

\* a null current_date behind a homeworks list violates checks 5 and 6 and
\* was caught as the ValueError of check 5
C12_Witness ==
    /\ pc = "except"
    /\ Violated = {5, 6}
    /\ error = Checked.error
    /\ error.type = "ValueError"

(***************************************************************************)
(* parse_status on the records the loop hands it: homeworks[0] of a        *)
(* validated, non-empty response.                                          *)
(***************************************************************************)
HasHomework == Fetched /\ Checked.ok /\ Len(Checked.value) > 0

Homework == Checked.value[1]

\* the loop caught an exception of this kind in this iteration
Caught(kind) == pc \in {"except", "sleep"} /\ error.type = kind

\* C13: once parse_status has run on homeworks[0], a record without
\* homework_name or without status has raised KeyError, a record with a
\* status outside approved, reviewing, rejected has raised ValueError, in both
\* cases without a message; any other record has given the text made of its
\* homework_name and the verdict of its status.
C13_ParseStatusFailsOrBuildsText ==
    (HasHomework /\ pc # "process") =>
        IF "homework_name" \notin DOMAIN Homework \/ "status" \notin DOMAIN Homework
        THEN message = "" /\ Caught("KeyError")
        ELSE IF Homework.status \notin {"approved", "reviewing", "rejected"}
        THEN message = "" /\ Caught("ValueError")
        ELSE message = "Izmenilsya status proverki raboty \""
                       \o Homework.homework_name \o "\". "
                       \o HOMEWORK_VERDICTS[Homework.status]

\* the fourth scenario: hw1 with status unknown_code
C13_Witness ==
    /\ HasHomework
    /\ Homework = [homework_name |-> "hw1", status |-> "unknown_code"]
    /\ Caught("ValueError")
    /\ message = ""
    /\ sends # <<>>
    /\ sends[1].text = "Sboi v rabote programmy: Status unknown or missing"

\* C14: what an iteration does with a validated, non-empty response is fixed
\* by homeworks[0] and current_date alone (and by what the bot API answers):
\* the message or the error is that of parse_status on element 0, the text
\* sent is that message, the cursor stays or becomes current_date, and
\* previous_message stays or becomes that message.  No later element is read,
\* so two responses equal in homeworks[0] and current_date fare the same.
C14_OnlyFirstElement ==
    [][/\ (pc = "process" /\ HasHomework) =>
             LET parsed == parse_status(Homework) IN
             IF parsed.ok
             THEN message' = parsed.value /\ error' = error
                  /\ pc' \in {"notify", "sleep"}
             ELSE error' = parsed.error /\ message' = message
                  /\ pc' = "except"
       /\ pc = "notify" =>
             /\ Len(sends') = 1
             /\ sends'[1].text = parse_status(Homework).value
             /\ timestamp' \in {timestamp, [from_date |-> response.v.current_date.v]}
             /\ previous_message' \in {previous_message, parse_status(Homework).value}
      ]_vars

\* hw1/approved followed by a record without status: the status of hw1 was
\* sent and the cursor moved, the second record raised nothing
C14_Witness ==
    /\ pc = "sleep"
    /\ HasHomework
    /\ Len(Checked.value) = 2
    /\ Homework = [homework_name |-> "hw1", status |-> "approved"]
    /\ "status" \notin DOMAIN Checked.value[2]
    /\ StatusSendReported
    /\ error = NoError
    /\ timestamp = ServerDate
    /\ timestamp # params

\* C15: a fetch is the first call of all or follows a sleep, never another
\* fetch; a sleep follows a fetch, never another sleep, and lasts
\* RETRY_PERIOD; and an iteration, whatever became of it, is left by that
\* sleep only.
C15_OneSleepBetweenFetches ==
    [][/\ pc = "poll" =>
             /\ last_call.fn \in {"none", "time.sleep"}
             /\ last_call' = [fn |-> "requests.get", secs |-> 0]
       /\ (last_call' # last_call /\ last_call'.fn = "time.sleep") =>
             /\ last_call.fn = "requests.get"
             /\ last_call'.secs = RETRY_PERIOD
       /\ (pc \in {"process", "notify", "except", "sleep"}
              /\ pc' \in {"poll", "crashed", "halted"}) =>
             /\ pc = "sleep"
             /\ last_call.fn = "requests.get"
             /\ last_call' = [fn |-> "time.sleep", secs |-> RETRY_PERIOD]
      ]_vars

\* back at the fetch after an iteration that ended in an error, one sleep
\* of the retry period behind it
C15_Witness ==
    /\ pc = "poll"
    /\ last_call = [fn |-> "time.sleep", secs |-> RETRY_PERIOD]
    /\ previous_message = "Sboi v rabote programmy: Status unknown or missing"
    /\ timestamp = [from_date |-> StartTime]

\* the step made a bot.send_message call, which the bot API answered with api
SendAnswered(api) ==
    /\ Len(sends') = Len(sends) + 1
    /\ sends'[Len(sends')].api = api

\* C16: a send the bot API accepts and a send it rejects with BadRequest end
\* alike: send_message returns True, nothing reaches the loop as an exception,
\* and previous_message becomes the text of the send.
C16_RejectionReportedAsSuccess ==
    [][(SendAnswered("ok") \/ SendAnswered("BadRequest")) =>
          /\ previous_message' = sends'[Len(sends')].text
          /\ error' = error
          /\ ~pending'
          /\ pc' = "sleep"]_vars

\* a status message was rejected and is previous_message all the same
C16_Witness ==
    /\ pc = "sleep"
    /\ sends = <<[text |-> message, api |-> "BadRequest"]>>
    /\ message # ""
    /\ previous_message = message
    /\ error = NoError
    /\ ~pending

TransportFailed == http_answer.transport \notin {"ok", "none"}

Not200 == http_answer.transport = "ok" /\ http_answer.status_code # 200

\* C17: the loop holds a response body, and check_response is about to run or
\* has run, only after a request that got through with status 200, and the
\* body is the one served; after a transport failure and after any other
\* status there is no body and the loop has caught a ConnectionError.
C17_BodyOnlyOn200 ==
    /\ (Fetched \/ pc = "process") =>
          /\ http_answer.transport = "ok"
          /\ http_answer.status_code = 200
          /\ response = http_answer.json
    /\ (TransportFailed \/ Not200) => (~Fetched /\ Caught("ConnectionError"))

\* a 404 answer with a well-formed body: ConnectionError, the body is dropped
C17_Witness ==
    /\ pc = "except"
    /\ Not200
    /\ http_answer.json.t = "dict"
    /\ ~Fetched
    /\ error.type = "ConnectionError"
    /\ error.arg = "Endpoint " \o ENDPOINT \o " unavailable. Status code: 404"

\* C18: the cursor changes only in the step that hands the status message of
\* the iteration to the Notifier; an iteration with a homework whose message
\* is treated as the same as previous_message goes to the sleep without a
\* send, cursor and previous_message as they were, and the sleep and the
\* next request take the cursor as it is.
C18_CursorMovesOnlyWithStatusSend ==
    [][/\ timestamp' # timestamp =>
             /\ pc = "notify"
             /\ Len(sends') = Len(sends) + 1
             /\ sends'[Len(sends')].text = message
       /\ (pc = "process" /\ HasHomework /\ pc' = "sleep") =>
             /\ sends' = <<>>
             /\ timestamp' = timestamp
             /\ timestamp' = params
             /\ previous_message' = previous_message
       /\ pc = "sleep" => (timestamp' = timestamp /\ previous_message' = previous_message)
       /\ pc = "poll" => params' = timestamp
      ]_vars

\* the end of an iteration whose status message was treated as the same as
\* previous_message
C18_Witness ==
    /\ pc = "sleep"
    /\ HasHomework
    /\ message # ""
    /\ message = previous_message
    /\ sends = <<>>
    /\ error = NoError
    /\ timestamp = params
    /\ timestamp # ServerDate

\* C19: a status send that fails with another error than BadRequest changes
\* neither the cursor nor previous_message and lands in the except block like
\* any error of the loop; there the cursor stays, and the diagnostic of the
\* failure, when its text differs from previous_message, goes into a second
\* send of the same iteration.
C19_FailedStatusSendIsRelayed ==
    [][/\ (pc = "notify" /\ SendAnswered("NetworkError")) =>
             /\ timestamp' = timestamp
             /\ previous_message' = previous_message
             /\ error'.type = "NetworkError"
             /\ pc' = "except"
       /\ (pc = "except" /\ error.type = "NetworkError") =>
             /\ timestamp' = timestamp
             /\ ("Sboi v rabote programmy: " \o error.arg # previous_message) =>
                   /\ Len(sends') = 2
                   /\ sends'[1] = sends[1]
                   /\ sends'[2].text = "Sboi v rabote programmy: " \o error.arg
      ]_vars

\* two sends in one iteration: the status message, which failed, and then
\* the diagnostic of that failure, which was delivered
C19_Witness ==
    /\ pc = "sleep"
    /\ message # ""
    /\ sends = <<[text |-> message, api |-> "NetworkError"],
                 [text |-> "Sboi v rabote programmy: Connection to the bot API failed",
                  api |-> "ok"]>>
    /\ previous_message = sends[2].text
    /\ timestamp = params
    /\ ~pending

====
